---- MODULE Spec2Model ----
(***************************************************************************)
(* A model of littleconf: the LittleConf loader (project name, root        *)
(* directory and environment resolution, file discovery, override          *)
(* collection, merge) and the memoizing getConfig wrapper.                  *)
(*                                                                         *)
(* Strings that the code takes apart (upper-casing, regex prefixes,        *)
(* splitting on '.', path joins) are sequences of one-character strings.    *)
(* JavaScript values are tagged records: undefined, null, a string, or a   *)
(* mapping (a function from keys to values).                                *)
(***************************************************************************)
EXTENDS Integers, Sequences, FiniteSets, TLC

\* ------------------------------------------------------------------ strings

LowerCase == <<"a","b","c","d","e","f","g","h","i","j","k","l","m",
               "n","o","p","q","r","s","t","u","v","w","x","y","z">>
UpperCase == <<"A","B","C","D","E","F","G","H","I","J","K","L","M",
               "N","O","P","Q","R","S","T","U","V","W","X","Y","Z">>
Digits == {"0","1","2","3","4","5","6","7","8","9"}

Range(s) == {s[i] : i \in DOMAIN s}

\* String.prototype.toUpperCase on one character, then on a string
UpperChar(c) ==
    IF \E j \in 1..26 : LowerCase[j] = c
    THEN UpperCase[CHOOSE j \in 1..26 : LowerCase[j] = c]
    ELSE c
toUpperCase(s) == [i \in 1..Len(s) |-> UpperChar(s[i])]

\* .replace(/[^A-Z0-9]/g, '_')
ReplaceNonAZ09(s) ==
    [i \in 1..Len(s) |-> IF s[i] \in Range(UpperCase) \cup Digits THEN s[i] ELSE "_"]

\* name.toUpperCase().replace(/[^A-Z0-9]/g, '_')
UpperSnake(s) == ReplaceNonAZ09(toUpperCase(s))

StartsWith(s, p) == Len(s) >= Len(p) /\ SubSeq(s, 1, Len(p)) = p
EndsWith(s, p) == Len(s) >= Len(p) /\ SubSeq(s, Len(s) - Len(p) + 1, Len(s)) = p
\* the (.*) group of a /^prefix(.*)$/ match
AfterPrefix(s, p) == SubSeq(s, Len(p) + 1, Len(s))

\* String.prototype.split('.')
RECURSIVE SplitFrom(_, _, _)
SplitFrom(s, i, cur) ==
    IF i > Len(s) THEN <<cur>>
    ELSE IF s[i] = "." THEN <<cur>> \o SplitFrom(s, i + 1, <<>>)
    ELSE SplitFrom(s, i + 1, Append(cur, s[i]))
SplitDots(s) == SplitFrom(s, 1, <<>>)

\* ------------------------------------------------------------------- values

Undefined == [t |-> "undefined"]
Null == [t |-> "null"]
Str(s) == [t |-> "s", v |-> s]
Map(f) == [t |-> "m", m |-> f]
EmptyObj == Map(<<>>)

IsMap(x) == x.t = "m"
\* objtools.isScalar: everything that is not an object (null included)
isScalar(x) == x.t # "m"
\* JavaScript truthiness of the values the model holds
Truthy(x) == IF x.t = "s" THEN x.v # <<>> ELSE x.t = "m"
\* a || b
Or(a, b) == IF Truthy(a) THEN a ELSE b
\* obj[key]
Prop(obj, k) == IF IsMap(obj) /\ k \in DOMAIN obj.m THEN obj.m[k] ELSE Undefined

\* An insertion-ordered mapping (process.env, argv): a sequence of <<key, value>>
\* pairs with distinct keys; `for (key in obj)` visits it in sequence order.
OKeys(om) == {om[i][1] : i \in DOMAIN om}
OGet(om, k) ==
    IF k \in OKeys(om) THEN om[CHOOSE i \in DOMAIN om : om[i][1] = k][2] ELSE Undefined
OPut(om, k, v) ==
    IF k \in OKeys(om)
    THEN [i \in DOMAIN om |-> IF om[i][1] = k THEN <<k, v>> ELSE om[i]]
    ELSE Append(om, <<k, v>>)

\* ----------------------------------------------------------------- objtools

\* obj[key] = value
Assign(f, k, v) == [x \in DOMAIN f \cup {k} |-> IF x = k THEN v ELSE f[x]]

\* objtools.merge of one source into the accumulated object: where both sides
\* hold mappings, merge recursively; otherwise the source's value replaces.
RECURSIVE Merge2(_, _)
Merge2(a, b) ==
    [k \in DOMAIN a \cup DOMAIN b |->
        IF k \notin DOMAIN b THEN a[k]
        ELSE IF k \notin DOMAIN a THEN b[k]
        ELSE IF IsMap(a[k]) /\ IsMap(b[k]) THEN Map(Merge2(a[k].m, b[k].m))
        ELSE b[k]]

\* objtools.merge({}, ...configs)
RECURSIVE MergeFrom(_, _, _)
MergeFrom(acc, configs, i) ==
    IF i > Len(configs) THEN acc
    ELSE MergeFrom(Merge2(acc, configs[i].m), configs, i + 1)
merge(configs) == Map(MergeFrom(<<>>, configs, 1))

\* objtools.getPath(obj, path): path is the dotted string
RECURSIVE GetParts(_, _)
GetParts(cur, parts) ==
    IF parts = <<>> THEN cur
    ELSE IF isScalar(cur) THEN Undefined
    ELSE GetParts(Prop(cur, Head(parts)), Tail(parts))
getPath(obj, path) == GetParts(obj, SplitDots(path))

\* objtools.setPath(obj, path, value): a scalar met on the way is replaced
\* by a fresh mapping
RECURSIVE SetParts(_, _, _)
SetParts(f, parts, value) ==
    IF Len(parts) = 1 THEN Assign(f, parts[1], value)
    ELSE LET child == IF parts[1] \in DOMAIN f /\ IsMap(f[parts[1]])
                      THEN f[parts[1]].m ELSE <<>>
         IN Assign(f, parts[1], Map(SetParts(child, Tail(parts), value)))
setPath(obj, path, value) == Map(SetParts(obj.m, SplitDots(path), value))

\* (mutant) removeNulls that does not descend into nested mappings
removeNullsFn_shallow(f) == [k \in {x \in DOMAIN f : f[x] # Null} |-> f[k]]

\* removeNulls: delete every key whose value is null, at any depth
RECURSIVE removeNullsFn(_)
removeNullsFn(f) ==
    [k \in {x \in DOMAIN f : f[x] # Null} |->
        IF IsMap(f[k]) THEN Map(removeNullsFn(f[k].m)) ELSE f[k]]
removeNulls(obj) == Map(removeNullsFn(obj.m))

\* LittleConf._mergeConfig(...configs)
_mergeConfig(configs) == removeNulls(merge(configs))

\* delete obj[key]
Delete(obj, k) == Map([x \in DOMAIN obj.m \ {k} |-> obj.m[x]])

\* ------------------------------------------------- string literals of the code

s_package_json == <<"p","a","c","k","a","g","e",".","j","s","o","n">>
s_defaults_conf == <<"-","d","e","f","a","u","l","t","s",".","c","o","n","f">>
s_conf == <<".","c","o","n","f">>
s_js == <<".","j","s">>
s_ENV == <<"_","E","N","V">>
s_CONFIG == <<"_","C","O","N","F","I","G">>
s_CONFIG_ == <<"_","C","O","N","F","I","G","_">>
s_NODE_ENV == <<"N","O","D","E","_","E","N","V">>
s_config_env == <<"c","o","n","f","i","g","-","e","n","v">>
s_c == <<"c">>
s_config_setting == <<"c","o","n","f","i","g","-","s","e","t","t","i","n","g","-">>
s_environments == <<"e","n","v","i","r","o","n","m","e","n","t","s">>
s_local == <<"l","o","c","a","l">>
s_project == <<"p","r","o","j","e","c","t">>
s_etc == <<"/","e","t","c">>
s_name == <<"n","a","m","e">>

\* -------------------------------------------------------------------- paths

isAbsolute(p) == Len(p) > 0 /\ p[1] = "/"
\* path.resolve(dir, name) and path.join(dir, name) for an absolute dir and a
\* name without '..' segments
Resolve(dir, name) ==
    IF isAbsolute(name) THEN name
    ELSE IF dir = <<"/">> THEN dir \o name
    ELSE dir \o <<"/">> \o name
\* path.resolve(dir, '..')
RECURSIVE DropLastSegment(_)
DropLastSegment(dir) ==
    IF Len(dir) <= 1 THEN <<"/">>
    ELSE IF dir[Len(dir)] = "/" THEN SubSeq(dir, 1, Len(dir) - 1)
    ELSE DropLastSegment(SubSeq(dir, 1, Len(dir) - 1))
Parent(dir) == DropLastSegment(dir)

\* -------------------------------------------------------------------- state

VARIABLES
    env,          \* process.env: ordered mapping, variable name -> Str value
    cwd,          \* process.cwd()
    files,        \* the filesystem: absolute path -> parsed content
    lc,           \* the LittleConf instances: index -> loader record
    calls,        \* getConfig invocations: index -> call record
    configCache   \* index.ts configCache: options hash -> result object

vars == <<env, cwd, files, lc, calls, configCache>>

\* A file that fails to parse (yaml.safeLoad throws)
Malformed == [t |-> "malformed"]
\* The outcome of a throwing call
Throw == [t |-> "throw"]

existsSync(p) == p \in DOMAIN files
processEnv(name) == OGet(env, name)

\* constructor(options): the instance fields, then the position of its
\* loadConfig run and the run's locals, then what the run has observed
NewLoader(options) ==
    [options |-> options,
     projectName |-> Undefined, environment |-> Undefined, rootDir |-> Undefined,
     pc |-> "idle",
     defaultsConfig |-> Undefined, mainConfig |-> Undefined,
     mainFilename |-> Undefined, overrides |-> Undefined, result |-> Undefined,
     trace |-> <<>>, reads |-> 0, runs |-> 0,
     seenName |-> {}, seenRoot |-> {}, seenEnv |-> {}]

NoOptions ==
    [argv |-> Undefined, environmentOverride |-> Undefined,
     cliArgumentEnvironment |-> Undefined, rootDir |-> Undefined,
     envVariableEnvironment |-> Undefined, defaultEnvironment |-> Undefined,
     defaultsFilename |-> Undefined, filenameOverride |-> Undefined,
     filename |-> Undefined, cliArgumentFile |-> Undefined,
     envVariableFile |-> Undefined, projectName |-> Undefined]

\* ------------------------------------------------------------------- loader

\* LittleConf._getCLIArgument(name); options.argv is an ordered mapping
_getCLIArgument(l, name) ==
    IF l.options.argv.t = "argv" THEN OGet(l.options.argv.a, name) ELSE Undefined

\* LittleConf._findProjectRootDir
RECURSIVE WalkUp(_)
WalkUp(dir) ==
    IF existsSync(Resolve(dir, s_package_json)) THEN Str(dir)
    ELSE IF Parent(dir) = dir THEN Str(cwd)
    ELSE WalkUp(Parent(dir))
_findProjectRootDir(l) ==
    IF Truthy(l.options.rootDir) THEN l.options.rootDir ELSE WalkUp(cwd)

\* LittleConf.getProjectRootDir: the value returned, and the instance after
getProjectRootDir(l) ==
    IF Truthy(l.rootDir) THEN l.rootDir ELSE _findProjectRootDir(l)
AfterGetProjectRootDir(l) ==
    LET v == getProjectRootDir(l)
    IN [l EXCEPT !.rootDir = v,
                 !.seenRoot = @ \cup {v},
                 !.trace = IF Truthy(l.rootDir) THEN @ ELSE Append(@, "RootResolved")]

\* /^@([-_A-Za-z0-9]+)\/([-_A-Za-z0-9]+)$/
ScopeChar(c) ==
    c \in Range(LowerCase) \cup Range(UpperCase) \cup Digits \cup {"-", "_"}
ScopedAt(name, i) ==
    /\ Len(name) >= 4 /\ name[1] = "@"
    /\ i \in 3..(Len(name) - 1) /\ name[i] = "/"
    /\ \A j \in (2..Len(name)) \ {i} : ScopeChar(name[j])
StripScope(name) ==
    IF \E i \in 1..Len(name) : ScopedAt(name, i)
    THEN SubSeq(name, (CHOOSE i \in 1..Len(name) : ScopedAt(name, i)) + 1, Len(name))
    ELSE name

\* LittleConf._findProjectName; getProjectRootDir() is called only on the
\* package.json branch
_findProjectName(l) ==
    LET pkgPath == Resolve(getProjectRootDir(l).v, s_package_json)
        name == IF Truthy(l.options.projectName) THEN l.options.projectName
                ELSE IF existsSync(pkgPath) /\ Truthy(Prop(files[pkgPath], s_name))
                     THEN Prop(files[pkgPath], s_name)
                ELSE Undefined
    IN IF ~Truthy(name) THEN Str(s_project) ELSE Str(StripScope(name.v))

\* LittleConf.getProjectName
getProjectName(l) ==
    IF Truthy(l.projectName) THEN l.projectName ELSE _findProjectName(l)
AfterGetProjectName(l) ==
    IF Truthy(l.projectName) THEN [l EXCEPT !.seenName = @ \cup {l.projectName}]
    ELSE LET l1 == IF Truthy(l.options.projectName) THEN l
                   ELSE AfterGetProjectRootDir(l)
             v == _findProjectName(l)
         IN [l1 EXCEPT !.projectName = v,
                       !.seenName = @ \cup {v},
                       !.trace = Append(@, "NameResolved")]

\* LittleConf._findConfigEnvironment: the CLI value, whether the project name
\* is needed (the || at line 91 short-circuits), and the value returned
CliEnv(l) ==
    _getCLIArgument(l, Or(l.options.cliArgumentEnvironment, Str(s_config_env)).v)
EnvNeedsProjectName(l) ==
    /\ ~Truthy(l.options.environmentOverride)
    /\ ~Truthy(CliEnv(l))
    /\ ~Truthy(l.options.envVariableEnvironment)
EnvVarName(l) ==
    IF Truthy(l.options.envVariableEnvironment) THEN l.options.envVariableEnvironment.v
    ELSE UpperSnake(getProjectName(l).v) \o s_ENV
\* (mutant) NODE_ENV consulted before the project's own variable
_findConfigEnvironment_nodeEnvFirst(l) ==
    IF Truthy(l.options.environmentOverride) THEN l.options.environmentOverride
    ELSE IF Truthy(CliEnv(l)) THEN CliEnv(l)
    ELSE IF Truthy(processEnv(s_NODE_ENV)) THEN processEnv(s_NODE_ENV)
    ELSE IF Truthy(processEnv(EnvVarName(l))) THEN processEnv(EnvVarName(l))
    ELSE Or(l.options.defaultEnvironment, Str(s_local))

_findConfigEnvironment(l) ==
    IF Truthy(l.options.environmentOverride) THEN l.options.environmentOverride
    ELSE IF Truthy(CliEnv(l)) THEN CliEnv(l)
    ELSE IF Truthy(processEnv(EnvVarName(l))) THEN processEnv(EnvVarName(l))
    ELSE IF Truthy(processEnv(s_NODE_ENV)) THEN processEnv(s_NODE_ENV)
    ELSE Or(l.options.defaultEnvironment, Str(s_local))

\* LittleConf.getConfigEnvironment
getConfigEnvironment(l) ==
    IF Truthy(l.environment) THEN l.environment ELSE _findConfigEnvironment(l)
\* (mutant) the environment looked up again on every call
AfterGetConfigEnvironment_uncached(l) ==
    LET l1 == IF EnvNeedsProjectName(l) THEN AfterGetProjectName(l) ELSE l
        v == _findConfigEnvironment(l)
    IN [l1 EXCEPT !.environment = v,
                  !.seenEnv = @ \cup {v},
                  !.trace = Append(@, "EnvResolved")]
AfterGetConfigEnvironment(l) ==
    IF Truthy(l.environment) THEN [l EXCEPT !.seenEnv = @ \cup {l.environment}]
    ELSE LET l1 == IF EnvNeedsProjectName(l) THEN AfterGetProjectName(l) ELSE l
             v == _findConfigEnvironment(l)
         IN [l1 EXCEPT !.environment = v,
                       !.seenEnv = @ \cup {v},
                       !.trace = Append(@, "EnvResolved")]

\* LittleConf._resolvePath(filenames, searchPaths): directories outside,
\* file names inside; the first existing absolute path, or null
Candidate(filenames, searchPaths, i) ==
    Resolve(searchPaths[((i - 1) \div Len(filenames)) + 1],
            filenames[((i - 1) % Len(filenames)) + 1])
_resolvePath(filenames, searchPaths) ==
    LET n == Len(filenames) * Len(searchPaths)
        hits == {i \in 1..n : existsSync(Candidate(filenames, searchPaths, i))}
    IN IF hits = {} THEN Null
       ELSE Str(Candidate(filenames, searchPaths,
                          CHOOSE i \in hits : \A j \in hits : i <= j))

\* LittleConf._loadFile(filename): the mapping returned, or Throw
_loadFile(filename) ==
    IF ~Truthy(filename) THEN EmptyObj
    ELSE IF ~existsSync(filename.v) THEN EmptyObj
    ELSE IF EndsWith(filename.v, s_js) THEN files[filename.v]
    ELSE IF files[filename.v] = Malformed THEN Throw
    ELSE IF ~IsMap(files[filename.v]) THEN EmptyObj
    ELSE files[filename.v]
\* whether _loadFile(filename) reads the file
ReadsFile(filename) == Truthy(filename) /\ existsSync(filename.v)

\* ---------------------------------------------------------------- loadConfig
\* loadConfig runs in three uninterrupted stretches, cut at its two awaits.

\* lines 246-252: the defaults file's candidate names
DefaultsFilenames(l) ==
    IF Truthy(l.options.defaultsFilename) THEN <<l.options.defaultsFilename.v>>
    ELSE <<getProjectName(l).v \o s_defaults_conf,
           getProjectName(l).v \o s_defaults_conf \o s_js>>

\* lines 246-254, up to the await of _loadFile(defaultsFilename)
LoadDefaults(l) ==
    LET l0 == [l EXCEPT !.trace = <<>>, !.reads = 0, !.runs = @ + 1]
        l1 == IF Truthy(l.options.defaultsFilename) THEN l0 ELSE AfterGetProjectName(l0)
        l2 == AfterGetProjectRootDir(l1)
        p == _resolvePath(DefaultsFilenames(l1), <<l2.rootDir.v>>)
        r == _loadFile(p)
    IN IF r = Throw THEN [l2 EXCEPT !.pc = "failed", !.result = Throw]
       ELSE [l2 EXCEPT !.pc = "defaults",
                       !.defaultsConfig = r,
                       !.reads = @ + (IF ReadsFile(p) THEN 1 ELSE 0),
                       !.trace = Append(@, "DefaultsLoaded")]

\* lines 258-269: the main file name as given by an option, the CLI or the
\* process environment (falsy when none gives one)
MainFromCli(l) ==
    IF Truthy(l.options.filenameOverride) THEN l.options.filenameOverride
    ELSE _getCLIArgument(l, Or(l.options.cliArgumentFile, Str(s_c)).v)
MainEnvVar(l) ==
    IF Truthy(l.options.envVariableFile) THEN l.options.envVariableFile.v
    ELSE UpperSnake(getProjectName(l).v) \o s_CONFIG
MainFromEnv(l) ==
    IF Truthy(MainFromCli(l)) THEN MainFromCli(l) ELSE processEnv(MainEnvVar(l))
\* (mutant) the filename option consulted before the CLI and the environment
MainGiven_optionFirst(l) ==
    IF Truthy(l.options.filenameOverride) THEN l.options.filenameOverride
    ELSE IF Truthy(l.options.filename) THEN l.options.filename
    ELSE MainFromEnv(l)

MainGiven(l) ==
    IF Truthy(MainFromEnv(l)) THEN MainFromEnv(l) ELSE l.options.filename
\* lines 270-275: the candidate names
MainFilenames(l) ==
    IF Truthy(MainGiven(l)) THEN <<MainGiven(l).v>>
    ELSE <<getProjectName(l).v \o s_conf, getProjectName(l).v \o s_conf \o s_js>>
\* whether lines 258-275 call getProjectName()
MainNeedsProjectName(l) ==
    \/ ~Truthy(MainFromCli(l)) /\ ~Truthy(l.options.envVariableFile)
    \/ ~Truthy(MainGiven(l))

\* lines 258-278, up to the await of _loadFile(mainFilename)
LoadMain(l) ==
    LET l1 == IF MainNeedsProjectName(l) THEN AfterGetProjectName(l) ELSE l
        l2 == AfterGetProjectRootDir(l1)
        p == _resolvePath(MainFilenames(l1), <<l2.rootDir.v, s_etc>>)
        r == IF Truthy(p) THEN _loadFile(p) ELSE EmptyObj
    IN IF r = Throw THEN [l2 EXCEPT !.pc = "failed", !.result = Throw]
       ELSE [l2 EXCEPT !.pc = "main",
                       !.mainConfig = r,
                       !.mainFilename = p,
                       !.reads = @ + (IF ReadsFile(p) THEN 1 ELSE 0),
                       !.trace = Append(@, "MainLoaded")]

\* lines 281-289: overrides from the process environment, in its order
RECURSIVE EnvOverridesFrom(_, _, _)
EnvOverridesFrom(acc, prefix, i) ==
    IF i > Len(env) THEN acc
    ELSE EnvOverridesFrom(
            IF StartsWith(env[i][1], prefix)
            THEN setPath(acc, AfterPrefix(env[i][1], prefix), env[i][2]) ELSE acc,
            prefix, i + 1)
\* lines 292-297: overrides from argv, in its order
RECURSIVE ArgvOverridesFrom(_, _, _)
ArgvOverridesFrom(acc, argv, i) ==
    IF i > Len(argv) THEN acc
    ELSE ArgvOverridesFrom(
            IF StartsWith(argv[i][1], s_config_setting)
            THEN setPath(acc, AfterPrefix(argv[i][1], s_config_setting), argv[i][2])
            ELSE acc,
            argv, i + 1)
\* (mutant) argv's overrides collected before the environment's
CollectOverrides_cliFirst(l) ==
    EnvOverridesFrom(
        ArgvOverridesFrom(EmptyObj,
            IF l.options.argv.t = "argv" THEN l.options.argv.a ELSE <<>>, 1),
        UpperSnake(getProjectName(l).v) \o s_CONFIG_, 1)
\* (mutant) the environment prefix without its trailing underscore
CollectOverrides_shortPrefix(l) ==
    ArgvOverridesFrom(
        EnvOverridesFrom(EmptyObj, UpperSnake(getProjectName(l).v) \o s_CONFIG, 1),
        IF l.options.argv.t = "argv" THEN l.options.argv.a ELSE <<>>, 1)

\* lines 281-297
CollectOverrides(l) ==
    ArgvOverridesFrom(
        EnvOverridesFrom(EmptyObj, UpperSnake(getProjectName(l).v) \o s_CONFIG_, 1),
        IF l.options.argv.t = "argv" THEN l.options.argv.a ELSE <<>>, 1)

\* objtools.getPath(config, 'environments.' + env) || {}
EnvBlock(config, envName) ==
    Or(getPath(config, s_environments \o <<".">> \o envName), EmptyObj)

\* (mutant) the main file merged before the defaults file's environment block
MergeSources_mainFirst(defaultsConfig, mainConfig, envName, overrides) ==
    <<defaultsConfig, mainConfig, EnvBlock(defaultsConfig, envName),
      EnvBlock(mainConfig, envName), overrides>>

\* lines 301-307: the merge sources, in order
MergeSources(defaultsConfig, mainConfig, envName, overrides) ==
    <<defaultsConfig, EnvBlock(defaultsConfig, envName),
      mainConfig, EnvBlock(mainConfig, envName),
      overrides>>

\* (mutant) the environment resolved before the overrides are collected
MergeAll_envFirst(l) ==
    LET l1 == AfterGetConfigEnvironment(l)
        l2 == AfterGetProjectName(l1)
        l3 == [l2 EXCEPT !.overrides = CollectOverrides(l2),
                         !.trace = Append(@, "OverridesCollected")]
        merged == _mergeConfig(MergeSources(l3.defaultsConfig, l3.mainConfig,
                                            l3.environment.v, l3.overrides))
    IN [l3 EXCEPT !.pc = "done",
                  !.result = Delete(merged, s_environments),
                  !.trace = Append(@, "Merged")]

\* lines 280-310
MergeAll(l) ==
    LET l1 == AfterGetProjectName(l)
        l2 == [l1 EXCEPT !.overrides = CollectOverrides(l1),
                         !.trace = Append(@, "OverridesCollected")]
        l3 == AfterGetConfigEnvironment(l2)
        merged == _mergeConfig(MergeSources(l3.defaultsConfig, l3.mainConfig,
                                            l3.environment.v, l3.overrides))
    IN [l3 EXCEPT !.pc = "done",
                  !.result = Delete(merged, s_environments),
                  !.trace = Append(@, "Merged")]

\* lines 258-310 run without interruption when no main file was found: the
\* conditional at line 278 awaits only on its first branch
LoadMainOnward(l) ==
    LET l2 == LoadMain(l)
    IN IF l2.pc = "main" /\ ~Truthy(l2.mainFilename) THEN MergeAll(l2) ELSE l2

\* the locals of a previous run are gone when loadConfig is called again
FreshRun(l) ==
    [l EXCEPT !.pc = "idle", !.defaultsConfig = Undefined, !.mainConfig = Undefined,
              !.mainFilename = Undefined, !.overrides = Undefined,
              !.result = Undefined]

\* ------------------------------------------------------------------ actions

\* loadConfig() called on a loader the application holds: first stretch
LoadConfigStart(i) ==
    /\ i \notin DOMAIN calls
    /\ lc[i].pc = "idle"
    /\ lc' = [lc EXCEPT ![i] = LoadDefaults(@)]
    /\ UNCHANGED <<env, cwd, files, calls, configCache>>

\* the most loadConfig runs followed on one instance
MaxRuns == 2

\* loadConfig() called again on the same instance after a run has ended
LoadConfigAgain(i) ==
    /\ i \notin DOMAIN calls
    /\ lc[i].pc \in {"done", "failed"}
    /\ lc[i].runs < MaxRuns
    /\ lc' = [lc EXCEPT ![i] = LoadDefaults(FreshRun(@))]
    /\ UNCHANGED <<env, cwd, files, calls, configCache>>

\* the defaults file's load has settled: second stretch
LoadConfigMain(i) ==
    /\ lc[i].pc = "defaults"
    /\ lc' = [lc EXCEPT ![i] = LoadMainOnward(@)]
    /\ UNCHANGED <<env, cwd, files, calls, configCache>>

\* the main file's load has settled: third stretch
LoadConfigMerge(i) ==
    /\ lc[i].pc = "main"
    /\ lc' = [lc EXCEPT ![i] = MergeAll(@)]
    /\ UNCHANGED <<env, cwd, files, calls, configCache>>

\* getProjectName(), getProjectRootDir(), getConfigEnvironment() called on a
\* loader the application holds
GetProjectName(i) ==
    /\ i \notin DOMAIN calls
    /\ lc' = [lc EXCEPT ![i] = AfterGetProjectName(@)]
    /\ UNCHANGED <<env, cwd, files, calls, configCache>>
GetProjectRootDir(i) ==
    /\ i \notin DOMAIN calls
    /\ lc' = [lc EXCEPT ![i] = AfterGetProjectRootDir(@)]
    /\ UNCHANGED <<env, cwd, files, calls, configCache>>
GetConfigEnvironment(i) ==
    /\ i \notin DOMAIN calls
    /\ lc' = [lc EXCEPT ![i] = AfterGetConfigEnvironment(@)]
    /\ UNCHANGED <<env, cwd, files, calls, configCache>>

NextLoad ==
    \E i \in DOMAIN lc :
        \/ LoadConfigStart(i)
        \/ LoadConfigMain(i)
        \/ LoadConfigMerge(i)

\* the world changing under the program: an environment variable set, the
\* working directory changed, a file written
SetEnv(name, value) ==
    /\ processEnv(name) # value
    /\ env' = OPut(env, name, value)
    /\ UNCHANGED <<cwd, files, lc, calls, configCache>>
Chdir(dir) ==
    /\ cwd # dir
    /\ cwd' = dir
    /\ UNCHANGED <<env, files, lc, calls, configCache>>
WriteFile(path, content) ==
    /\ path \in DOMAIN files
    /\ files[path] # content
    /\ files' = [files EXCEPT ![path] = content]
    /\ UNCHANGED <<env, cwd, lc, calls, configCache>>

\* ----------------------------------------------------------------- index.ts
\* An options object as the caller wrote it holds a sequence of <<key, value>>
\* pairs, in the order the keys were written.
Obj(pairs) == [t |-> "obj", p |-> pairs]

\* JSON.stringify(options): the members in the order written, a member whose
\* value is undefined left out
JSONValue(v) ==
    IF v.t = "s" THEN <<"\"">> \o v.v \o <<"\"">> ELSE <<"null">>
RECURSIVE JSONMembers(_, _)
JSONMembers(pairs, first) ==
    IF pairs = <<>> THEN <<>>
    ELSE IF Head(pairs)[2] = Undefined THEN JSONMembers(Tail(pairs), first)
    ELSE (IF first THEN <<>> ELSE <<",">>)
         \o <<"\"", Head(pairs)[1], "\"", ":">> \o JSONValue(Head(pairs)[2])
         \o JSONMembers(Tail(pairs), FALSE)
JSONstringify(options) == <<"{">> \o JSONMembers(options, TRUE) \o <<"}">>
\* sha1(text): distinct texts are taken to have distinct digests
sha1(text) == <<"sha1", text>>
\* getConfig(options = {}): the default parameter
OrEmpty(options) == IF options = Undefined THEN <<>> ELSE options.p
\* the options as the loader reads them, property by property
ToOptions(options) ==
    [f \in DOMAIN NoOptions |->
        IF \E n \in DOMAIN options : options[n][1] = f
        THEN options[CHOOSE n \in DOMAIN options : options[n][1] = f][2]
        ELSE Undefined]

\* the most getConfig calls made
MaxCalls == 3

\* the order of events: every start and every end of a getConfig call ticks
Now == Len(calls) + Cardinality({i \in DOMAIN calls : calls[i].pc # "loading"})
\* the object a loadConfig run returns, a new one each run
ResultObject(i) == [id |-> i, v |-> lc[i].result]

\* lines 11-12: the slot of the options' hash holds an object, returned as is
GetConfigHit(o) ==
    LET h == sha1(JSONstringify(OrEmpty(o)))
    IN /\ Len(calls) < MaxCalls
       /\ h \in DOMAIN configCache
       /\ calls' = Append(calls, [options |-> o, hash |-> h, pc |-> "returned",
                                  hit |-> TRUE, ret |-> configCache[h],
                                  began |-> Now + 1, ended |-> Now + 2])
       /\ UNCHANGED <<env, cwd, files, lc, configCache>>

\* (mutant) the cache never consulted
GetConfigMiss_always(o) ==
    LET h == sha1(JSONstringify(OrEmpty(o)))
        n == Len(calls) + 1
    IN /\ Len(calls) < MaxCalls
       /\ lc' = (n :> LoadDefaults(NewLoader(ToOptions(OrEmpty(o))))) @@ lc
       /\ calls' = Append(calls, [options |-> o, hash |-> h, pc |-> "loading",
                                  hit |-> FALSE, ret |-> Undefined,
                                  began |-> Now + 1, ended |-> 0])
       /\ UNCHANGED <<env, cwd, files, configCache>>

\* lines 11-14: the slot is empty; a new loader runs loadConfig up to its
\* first await
GetConfigMiss(o) ==
    LET h == sha1(JSONstringify(OrEmpty(o)))
        n == Len(calls) + 1
    IN /\ Len(calls) < MaxCalls
       /\ h \notin DOMAIN configCache
       /\ lc' = (n :> LoadDefaults(NewLoader(ToOptions(OrEmpty(o))))) @@ lc
       /\ calls' = Append(calls, [options |-> o, hash |-> h, pc |-> "loading",
                                  hit |-> FALSE, ret |-> Undefined,
                                  began |-> Now + 1, ended |-> 0])
       /\ UNCHANGED <<env, cwd, files, configCache>>

\* (mutant) a filled slot is kept: the first call to finish wins
GetConfigStore_firstWins(i) ==
    /\ i \in DOMAIN calls
    /\ calls[i].pc = "loading"
    /\ lc[i].pc = "done"
    /\ configCache' = IF calls[i].hash \in DOMAIN configCache THEN configCache
                      ELSE (calls[i].hash :> ResultObject(i)) @@ configCache
    /\ calls' = [calls EXCEPT ![i].pc = "returned",
                              ![i].ret = configCache'[calls[i].hash],
                              ![i].ended = Now + 1]
    /\ UNCHANGED <<env, cwd, files, lc>>

\* lines 14-15: loadConfig has resolved; its object is stored in the slot and
\* the slot's content returned
GetConfigStore(i) ==
    /\ i \in DOMAIN calls
    /\ calls[i].pc = "loading"
    /\ lc[i].pc = "done"
    /\ configCache' = (calls[i].hash :> ResultObject(i)) @@ configCache
    /\ calls' = [calls EXCEPT ![i].pc = "returned",
                              ![i].ret = configCache'[calls[i].hash],
                              ![i].ended = Now + 1]
    /\ UNCHANGED <<env, cwd, files, lc>>

\* line 14: loadConfig has rejected; getConfig rejects and stores nothing
GetConfigFail(i) ==
    /\ i \in DOMAIN calls
    /\ calls[i].pc = "loading"
    /\ lc[i].pc = "failed"
    /\ calls' = [calls EXCEPT ![i].pc = "failed", ![i].ended = Now + 1]
    /\ UNCHANGED <<env, cwd, files, lc, configCache>>

\* ------------------------------------------------- inputs: merge sources

kA == <<"a">>
kX == <<"x">>
kY == <<"y">>
sProd == <<"p","r","o","d">>
sDev == <<"d","e","v">>
sMy == <<"m","y">>
dirP == <<"/","p">>

\* what one source may hold under key a, its own scalars tagged `tag`
ValuesOfA(tag) ==
    {Null, Str(<<tag>>), EmptyObj, Map(kX :> Null), Map(kX :> Str(<<tag>>)),
     Map(kY :> Str(<<tag>>))}
TopLevels(tag) == {<<>>} \cup {kA :> v : v \in ValuesOfA(tag)}
EnvironmentsParts(tag) ==
    {<<>>, s_environments :> Null,
     s_environments :> Map(sDev :> Map(kA :> Str(<<"9">>)))}
    \cup {s_environments :> Map(sProd :> Map(t)) : t \in TopLevels(tag)}
FileContents(tag, tagE) ==
    {Map(top @@ ep) : top \in TopLevels(tag), ep \in EnvironmentsParts(tagE)}

\* argv override keys: config-setting-a, config-setting-a.x, config-setting-a.y
ArgvOverrideSets ==
    {<<>>,
     <<<<s_config_setting \o kA, Null>>>>,
     <<<<s_config_setting \o kA, Str(<<"5">>)>>>>,
     <<<<s_config_setting \o kA \o <<".">> \o kX, Null>>>>,
     <<<<s_config_setting \o kA \o <<".">> \o kX, Str(<<"5">>)>>>>,
     <<<<s_config_setting \o kA \o <<".">> \o kY, Str(<<"5">>)>>>>}

DefaultsPathP == dirP \o <<"/">> \o sMy \o s_defaults_conf
MainPathP == dirP \o <<"/">> \o sMy \o s_conf

\* a project /p named my, environment prod; the two files and argv vary
InitMerge ==
    /\ env = <<>>
    /\ cwd = dirP
    /\ \E d \in FileContents("1", "2"), m \in FileContents("3", "4") :
          files = (DefaultsPathP :> d) @@ (MainPathP :> m)
    /\ \E a \in ArgvOverrideSets :
          lc = <<NewLoader([NoOptions EXCEPT !.rootDir = Str(dirP),
                                             !.projectName = Str(sMy),
                                             !.environmentOverride = Str(sProd),
                                             !.argv = [t |-> "argv", a |-> a]])>>
    /\ calls = <<>>
    /\ configCache = <<>>

SpecMerge == InitMerge /\ [][NextLoad]_vars

\* ---------------------------------------------------- inputs: the overrides

\* the most override entries drawn, argv's and process.env's together
MaxOverrides == 3

s_myapp == <<"m","y","a","p","p">>
s_MYAPP == <<"M","Y","A","P","P">>
s_db == <<"d","b">>
s_host == <<"h","o","s","t">>
s_DB_HOST == <<"D","B","_","H","O","S","T">>
s_foo == <<"f","o","o">>

\* the dotted form of a path given by its segments
RECURSIVE Dotted(_)
Dotted(segs) ==
    IF Len(segs) = 1 THEN segs[1] ELSE segs[1] \o <<".">> \o Dotted(Tail(segs))

\* sequences without repeats, of length at most n, over the set S
RECURSIVE SeqsUpTo(_, _)
SeqsUpTo(S, n) ==
    IF n = 0 THEN {<<>>}
    ELSE LET shorter == SeqsUpTo(S, n - 1)
         IN shorter \cup {Append(q, x) : q \in shorter, x \in S}
DistinctKeys(q) == \A i, j \in DOMAIN q : i # j => q[i][1] # q[j][1]

\* the paths overrides address, and the pairs argv and process.env may hold
OverridePaths ==
    {<<s_db>>, <<s_db, s_host>>, <<s_db, s_host, kX>>, <<s_DB_HOST>>,
     <<s_environments, sProd, s_db>>}
ArgvPairs ==
    {<<s_config_setting \o Dotted(<<s_db, s_host>>), Str(<<"5">>)>>,
     <<s_config_setting \o Dotted(<<s_db, s_host>>), Null>>,
     <<s_config_setting \o Dotted(<<s_db>>), Str(<<"6">>)>>,
     <<s_config_setting \o Dotted(<<s_db>>), Map(kY :> Str(<<"7">>))>>,
     <<s_config_setting \o Dotted(<<s_db, s_host, kX>>), Str(<<"8">>)>>,
     <<s_config_setting \o Dotted(<<s_DB_HOST>>), Str(<<"4">>)>>,
     <<s_config_setting \o Dotted(<<s_environments, sProd, s_db>>), Str(<<"9">>)>>}
EnvPairs ==
    {<<s_MYAPP \o s_CONFIG_ \o s_DB_HOST, Str(s_foo)>>,
     <<s_MYAPP \o s_CONFIG_ \o Dotted(<<s_db, s_host>>), Str(<<"b">>)>>,
     <<s_MYAPP \o s_CONFIG_ \o Dotted(<<s_db>>), Str(<<"c">>)>>,
     <<s_MYAPP \o s_CONFIG_ \o Dotted(<<s_db, s_host, kX>>), Str(<<"e">>)>>,
     <<s_MYAPP \o <<"X">> \o s_CONFIG_ \o Dotted(<<s_db>>), Str(<<"n">>)>>}
OverrideFileContents(tag) ==
    {EmptyObj,
     Map(s_db :> Map(s_host :> Str(<<tag>>))),
     Map(s_db :> Str(<<tag>>)),
     Map(s_db :> Map(s_host :> Map(kX :> Str(<<tag>>)))),
     Map(s_DB_HOST :> Str(<<tag>>)),
     Map(s_environments :> Map(sProd :> Map(s_db :> Map(s_host :> Str(<<tag>>)))))}

DefaultsPathMyapp == dirP \o <<"/">> \o s_myapp \o s_defaults_conf
MainPathMyapp == dirP \o <<"/">> \o s_myapp \o s_conf

\* a project /p named myapp, environment prod; files, process.env, argv vary
InitOverride ==
    /\ cwd = dirP
    /\ \E d \in OverrideFileContents("d"), m \in OverrideFileContents("m") :
          files = (DefaultsPathMyapp :> d) @@ (MainPathMyapp :> m)
    /\ \E a \in {q \in SeqsUpTo(ArgvPairs, MaxOverrides) : DistinctKeys(q)} :
          /\ env \in {q \in SeqsUpTo(EnvPairs, MaxOverrides - Len(a)) : DistinctKeys(q)}
          /\ lc = <<NewLoader([NoOptions EXCEPT !.rootDir = Str(dirP),
                                                !.projectName = Str(s_myapp),
                                                !.environmentOverride = Str(sProd),
                                                !.argv = [t |-> "argv", a |-> a]])>>
    /\ calls = <<>>
    /\ configCache = <<>>

SpecOverride == InitOverride /\ [][NextLoad]_vars

\* ------------------------------------------------ inputs: the environment

s_my_app == <<"m","y","-","a","p","p">>
s_MY_APP == <<"M","Y","_","A","P","P">>
s_scoped_pkg == <<"@","s","c","/","p","k","g">>
s_PKG == <<"P","K","G">>
s_web_ui == <<"w","e","b",".","u","i","2">>
s_WEB_UI == <<"W","E","B","_","U","I","2">>
s_MYVAR == <<"M","Y","V","A","R">>
s_e == <<"e">>
ManifestP == dirP \o <<"/">> \o s_package_json

\* project name options, and for each the PROJECT_NAME prefix of the
\* project's own variables (the manifest of /p is named web.ui2)
ProjectNameOptions == {Undefined, Str(s_my_app), Str(s_scoped_pkg)}
ConventionPrefix(projectNameOption) ==
    IF projectNameOption = Str(s_my_app) THEN s_MY_APP
    ELSE IF projectNameOption = Str(s_scoped_pkg) THEN s_PKG
    ELSE s_WEB_UI

\* an ordered mapping from a sequence of <<key, choice>> where a choice of
\* Undefined leaves the key out
RECURSIVE Present(_)
Present(q) ==
    IF q = <<>> THEN <<>>
    ELSE (IF Head(q)[2] = Undefined THEN <<>> ELSE <<Head(q)>>) \o Present(Tail(q))

EnvArgvs ==
    {Undefined,
     [t |-> "argv", a |-> <<>>],
     [t |-> "argv", a |-> <<<<s_config_env, Str(<<"c","l","i">>)>>>>],
     [t |-> "argv", a |-> <<<<s_config_env, Str(<<>>)>>>>],
     [t |-> "argv", a |-> <<<<s_e, Str(<<"c","2">>)>>>>],
     [t |-> "argv", a |-> <<<<s_config_env, Str(<<"c","l","i">>)>>,
                            <<s_e, Str(<<"c","2">>)>>>>]}

\* a project /p whose manifest names it web.ui2; the options and the process
\* environment that bear on the environment name vary
InitEnv ==
    /\ cwd = dirP
    /\ files = (ManifestP :> Map(s_name :> Str(s_web_ui)))
    /\ \E pn \in ProjectNameOptions,
          ov \in {Undefined, Str(<<>>), Str(<<"o","v">>)},
          av \in EnvArgvs,
          ca \in {Undefined, Str(s_e)},
          ev \in {Undefined, Str(s_MYVAR)},
          de \in {Undefined, Str(<<"d","f">>)},
          pv \in {Undefined, Str(<<>>), Str(<<"p","e">>)},
          raw \in {Undefined, Str(<<"r","w">>)},
          cv \in {Undefined, Str(<<"c","v">>)},
          ne \in {Undefined, Str(<<>>), Str(<<"n","e">>)} :
          /\ env = Present(<<<<s_NODE_ENV, ne>>,
                             <<ConventionPrefix(pn) \o s_ENV, pv>>,
                             <<s_project \o s_ENV, raw>>,
                             <<s_MYVAR, cv>>>>)
          /\ lc = <<NewLoader([NoOptions EXCEPT !.rootDir = Str(dirP),
                                                !.projectName = pn,
                                                !.environmentOverride = ov,
                                                !.argv = av,
                                                !.cliArgumentEnvironment = ca,
                                                !.envVariableEnvironment = ev,
                                                !.defaultEnvironment = de])>>
    /\ calls = <<>>
    /\ configCache = <<>>

NextEnv == \E i \in DOMAIN lc : GetConfigEnvironment(i)

SpecEnv == InitEnv /\ [][NextEnv]_vars

\* ------------------------------------------------ inputs: the main file name

s_MY == <<"M","Y">>
s_f == <<"f">>
n_override == <<"o",".","c","o","n","f">>
n_cli == <<"c","l","i",".","c","o","n","f">>
n_cli2 == <<"f",".","c","o","n","f">>
n_env == <<"e","n","v",".","c","o","n","f">>
n_var == <<"v","a","r",".","c","o","n","f">>
n_option == <<"o","p","t",".","c","o","n","f">>
n_absolute == <<"/","e","t","c","/","a","b","s",".","c","o","n","f">>
GivenNames == {n_override, n_cli, n_cli2, n_env, n_var, n_option, n_absolute}
DefaultNames == <<sMy \o s_conf, sMy \o s_conf \o s_js>>

\* a file whose content names the file
FileAt(path) == path :> Map(kA :> Str(path))
RECURSIVE FilesAt(_)
FilesAt(paths) ==
    IF paths = {} THEN <<>>
    ELSE LET p == CHOOSE x \in paths : TRUE
         IN FileAt(p) @@ FilesAt(paths \ {p})
\* where the files named by options, argv and process.env exist, and where
\* the two default candidates do
Placements == {{}, {dirP}, {s_etc}, {dirP, s_etc}}
FileArgvs ==
    {Undefined,
     [t |-> "argv", a |-> <<<<s_c, Str(<<>>)>>>>],
     [t |-> "argv", a |-> <<<<s_c, Str(n_cli)>>>>],
     [t |-> "argv", a |-> <<<<s_f, Str(n_cli2)>>>>],
     [t |-> "argv", a |-> <<<<s_c, Str(n_cli)>>, <<s_f, Str(n_cli2)>>>>]}

\* a project /p named my without a defaults file; the options, argv and
\* process.env that bear on the main file name vary, and so does which of
\* the named files exist
InitFile ==
    /\ cwd = dirP
    /\ \E given \in Placements, conf \in Placements, js \in {{}, {dirP}} :
          files = FilesAt({Resolve(d, n) : d \in given, n \in GivenNames}
                          \cup {Resolve(d, DefaultNames[1]) : d \in conf}
                          \cup {Resolve(d, DefaultNames[2]) : d \in js})
    /\ \E fo \in {Undefined, Str(<<>>), Str(n_override)},
          av \in FileArgvs,
          ca \in {Undefined, Str(s_f)},
          ev \in {Undefined, Str(s_MYVAR)},
          fn \in {Undefined, Str(n_option), Str(n_absolute)},
          pv \in {Undefined, Str(<<>>), Str(n_env)},
          cv \in {Undefined, Str(n_var)} :
          /\ env = Present(<<<<s_MY \o s_CONFIG, pv>>, <<s_MYVAR, cv>>>>)
          /\ lc = <<NewLoader([NoOptions EXCEPT !.rootDir = Str(dirP),
                                                !.projectName = Str(sMy),
                                                !.environmentOverride = Str(sProd),
                                                !.filenameOverride = fo,
                                                !.argv = av,
                                                !.cliArgumentFile = ca,
                                                !.envVariableFile = ev,
                                                !.filename = fn])>>
    /\ calls = <<>>
    /\ configCache = <<>>

SpecFile == InitFile /\ [][NextLoad]_vars

\* ------------------------------------------------ inputs: the order of steps

dirSub == <<"/","p","/","s","u","b">>
n_defaults == <<"d",".","c","o","n","f">>
\* what a config file may be: absent, well-formed, or failing to parse
FileStates == {Undefined, Map(kA :> Str(<<"1">>)), Malformed}
\* the filesystem holding the given files, a content of Undefined leaving
\* the file out
RECURSIVE FilesOf(_)
FilesOf(q) ==
    IF q = <<>> THEN <<>>
    ELSE (IF Head(q)[2] = Undefined THEN <<>> ELSE Head(q)[1] :> Head(q)[2])
         @@ FilesOf(Tail(q))

\* a project /p whose manifest, when present, names it my, started in /p or
\* in /p/sub; the options that decide which resolutions loadConfig needs
\* vary, and so do the defaults and main files
InitOrder ==
    /\ cwd \in {dirP, dirSub}
    /\ \E mf \in {Undefined, Map(s_name :> Str(sMy))},
          d \in FileStates, m \in FileStates :
          files = FilesOf(<<<<ManifestP, mf>>,
                            <<DefaultsPathP, d>>,
                            <<Resolve(dirP, n_defaults), d>>,
                            <<Resolve(dirP, s_project \o s_defaults_conf), d>>,
                            <<MainPathP, m>>,
                            <<Resolve(dirP, n_option), m>>,
                            <<Resolve(dirP, s_project \o s_conf), m>>>>)
    /\ \E pn \in {Undefined, Str(sMy)},
          rd \in {Undefined, Str(dirP)},
          df \in {Undefined, Str(n_defaults)},
          fo \in {Undefined, Str(n_option)},
          ev \in {Undefined, Str(s_MYVAR)},
          ov \in {Undefined, Str(sProd)} :
          lc = <<NewLoader([NoOptions EXCEPT !.projectName = pn,
                                             !.rootDir = rd,
                                             !.defaultsFilename = df,
                                             !.filenameOverride = fo,
                                             !.envVariableFile = ev,
                                             !.environmentOverride = ov])>>
    /\ env = <<>>
    /\ calls = <<>>
    /\ configCache = <<>>

SpecOrder == InitOrder /\ [][NextLoad]_vars

\* ------------------------------------------- inputs: one instance, many calls

dirQ == <<"/","q">>
sOt == <<"o","t">>
ManifestQ == dirQ \o <<"/">> \o s_package_json
CacheMain(tag) ==
    Map((kA :> Str(<<tag>>))
        @@ (s_environments :> Map((sProd :> Map(kX :> Str(<<"p">>)))
                                  @@ (sDev :> Map(kX :> Str(<<"d">>))))))
CacheDefaults(tag) == Map(kY :> Str(<<tag>>))

\* two projects, /p named my and /q named ot, each with its config files; a
\* loader without options, so that the name, the root and the environment all
\* come from the world
InitCache ==
    /\ cwd \in {dirP, dirQ}
    /\ env = <<>>
    /\ files = FilesOf(<<<<ManifestP, Map(s_name :> Str(sMy))>>,
                         <<ManifestQ, Map(s_name :> Str(sOt))>>,
                         <<DefaultsPathP, CacheDefaults("3")>>,
                         <<MainPathP, CacheMain("1")>>,
                         <<Resolve(dirQ, sOt \o s_conf), CacheMain("5")>>>>)
    /\ lc = <<NewLoader(NoOptions)>>
    /\ calls = <<>>
    /\ configCache = <<>>

\* the calls the application makes on the instance, and the world changing
\* between them
NextCache ==
    \/ \E i \in DOMAIN lc :
          \/ LoadConfigStart(i)
          \/ LoadConfigAgain(i)
          \/ LoadConfigMain(i)
          \/ LoadConfigMerge(i)
          \/ GetProjectName(i)
          \/ GetProjectRootDir(i)
          \/ GetConfigEnvironment(i)
    \/ \E v \in {sProd, sDev} : SetEnv(s_NODE_ENV, Str(v))
    \/ \E d \in {dirP, dirQ} : Chdir(d)
    \/ \E n \in {sMy, sOt} : WriteFile(ManifestP, Map(s_name :> Str(n)))
    \/ \E t \in {"1", "2"} : WriteFile(MainPathP, CacheMain(t))
    \/ \E t \in {"3", "4"} : WriteFile(DefaultsPathP, CacheDefaults(t))

SpecCache == InitCache /\ [][NextCache]_vars

\* ------------------------------------------------------- inputs: getConfig

\* option values a caller passes: the same two options written in either
\* order, with a further option set to undefined, and no options at all
OptionsNameRoot == Obj(<<<<"projectName", Str(sMy)>>, <<"rootDir", Str(dirP)>>>>)
OptionsRootName == Obj(<<<<"rootDir", Str(dirP)>>, <<"projectName", Str(sMy)>>>>)
GetOptions ==
    {OptionsNameRoot,
     OptionsRootName,
     Obj(Append(OptionsNameRoot.p, <<"filename", Undefined>>)),
     Undefined}

\* the project /p named my with a defaults file and a main file, which
\* parses or does not
InitGet ==
    /\ cwd = dirP
    /\ env = <<>>
    /\ \E m \in {CacheMain("1"), Malformed} :
          files = FilesOf(<<<<ManifestP, Map(s_name :> Str(sMy))>>,
                            <<DefaultsPathP, CacheDefaults("3")>>,
                            <<MainPathP, m>>>>)
    /\ lc = <<>>
    /\ calls = <<>>
    /\ configCache = <<>>

NextGet ==
    \/ \E o \in GetOptions :
          \/ GetConfigHit(o)
          \/ GetConfigMiss(o)
    \/ \E i \in DOMAIN lc :
          \/ LoadConfigMain(i)
          \/ LoadConfigMerge(i)
          \/ GetConfigStore(i)
          \/ GetConfigFail(i)

SpecGet == InitGet /\ [][NextGet]_vars

\* ------------------------------------------------------- claims: the merge

Max(S) == CHOOSE x \in S : \A y \in S : y <= x

\* The deep merge stated key by key instead of source by source: at a key,
\* the last source holding it decides; when that value is a mapping, it is
\* merged with the mappings of the sources that follow the last source
\* holding a non-mapping there.
RECURSIVE MappingsAt(_, _, _)
MappingsAt(srcs, k, i) ==
    IF i > Len(srcs) THEN <<>>
    ELSE (IF k \in DOMAIN srcs[i] THEN <<srcs[i][k].m>> ELSE <<>>)
         \o MappingsAt(srcs, k, i + 1)
RECURSIVE KeyWise(_)
KeyWise(srcs) ==
    [k \in UNION {DOMAIN srcs[i] : i \in DOMAIN srcs} |->
        LET holders == {i \in DOMAIN srcs : k \in DOMAIN srcs[i]}
            cut == Max({0} \cup {i \in holders : ~IsMap(srcs[i][k])})
        IN IF cut = Max(holders) THEN srcs[cut][k]
           ELSE Map(KeyWise(MappingsAt(srcs, k, cut + 1)))]
RECURSIVE Pruned(_)
Pruned(f) ==
    [k \in {x \in DOMAIN f : f[x].t # "null"} |->
        IF f[k].t = "m" THEN Map(Pruned(f[k].m)) ELSE f[k]]
RECURSIVE NoNullIn(_)
NoNullIn(f) ==
    \A k \in DOMAIN f : f[k].t # "null" /\ (f[k].t = "m" => NoNullIn(f[k].m))

\* the environments.E block of a file's content, read key by key
BlockOf(content, e) ==
    IF /\ content.t = "m" /\ s_environments \in DOMAIN content.m
       /\ content.m[s_environments].t = "m"
       /\ e \in DOMAIN content.m[s_environments].m
       /\ content.m[s_environments].m[e].t = "m"
    THEN content.m[s_environments].m[e].m
    ELSE <<>>
\* the five sources of a finished run of the project /p
FiveSources(l) ==
    <<files[DefaultsPathP].m, BlockOf(files[DefaultsPathP], l.environment.v),
      files[MainPathP].m, BlockOf(files[MainPathP], l.environment.v),
      l.overrides.m>>
Without(f, k) == [x \in DOMAIN f \ {k} |-> f[x]]
Holds(f, k) == k \in DOMAIN f
ScalarAt(f, k) == k \in DOMAIN f /\ f[k].t = "s"

\* C1: loadConfig returns the deep merge of the defaults file, its
\* environments.E block, the main file, its environments.E block and the
\* overrides, in this order (nulls pruned, the environments key dropped); a
\* top-level value of the main file wins over the defaults file's
\* environments.E block, and the main file's environments.E block wins over
\* the main file's top-level value.
C1_MergeOrder ==
    \A i \in DOMAIN lc :
        lc[i].pc = "done" =>
            LET s == FiveSources(lc[i])
                r == lc[i].result.m
            IN /\ r = Without(Pruned(KeyWise(s)), s_environments)
               /\ (ScalarAt(s[3], kA) /\ ~Holds(s[4], kA) /\ ~Holds(s[5], kA))
                     => (Holds(r, kA) /\ r[kA] = s[3][kA])
               /\ (ScalarAt(s[4], kA) /\ ~Holds(s[5], kA))
                     => (Holds(r, kA) /\ r[kA] = s[4][kA])

\* a finished run where the defaults file's prod block and the main file's
\* top level both give a scalar for a, and the main file's wins
C1_Witness ==
    \E i \in DOMAIN lc :
        /\ lc[i].pc = "done"
        /\ ScalarAt(FiveSources(lc[i])[2], kA)
        /\ ScalarAt(FiveSources(lc[i])[3], kA)
        /\ ~Holds(FiveSources(lc[i])[4], kA)
        /\ ~Holds(FiveSources(lc[i])[5], kA)
        /\ lc[i].result.m[kA] = FiveSources(lc[i])[3][kA]

\* the last of the sources that holds key k, 0 when none does
LastHolder(srcs, k) == Max({0} \cup {i \in DOMAIN srcs : k \in DOMAIN srcs[i]})

\* C3: the result of loadConfig holds no null at any depth, and a key whose
\* last source gives null is absent from the result, whatever the earlier
\* sources gave (a scalar or a nested mapping).
C3_NoNulls ==
    \A i \in DOMAIN lc :
        lc[i].pc = "done" =>
            LET s == FiveSources(lc[i])
                n == LastHolder(s, kA)
            IN /\ NoNullIn(lc[i].result.m)
               /\ (n > 0 /\ s[n][kA].t = "null") => kA \notin DOMAIN lc[i].result.m

\* a finished run where the defaults file gives a a nested mapping and the
\* main file gives it null, and a is gone
C3_Witness ==
    \E i \in DOMAIN lc :
        /\ lc[i].pc = "done"
        /\ Holds(FiveSources(lc[i])[1], kA)
        /\ FiveSources(lc[i])[1][kA].t = "m"
        /\ LastHolder(FiveSources(lc[i]), kA) = 3
        /\ FiveSources(lc[i])[3][kA].t = "null"
        /\ kA \notin DOMAIN lc[i].result.m

\* ---------------------------------------------------- claims: the overrides

\* the value a mapping holds at a path given by its segments
RECURSIVE Lookup(_, _)
Lookup(f, segs) ==
    IF segs[1] \notin DOMAIN f THEN Undefined
    ELSE IF Len(segs) = 1 THEN f[segs[1]]
    ELSE IF f[segs[1]].t # "m" THEN Undefined
    ELSE Lookup(f[segs[1]].m, Tail(segs))
IsPrefix(p, q) == Len(p) <= Len(q) /\ SubSeq(q, 1, Len(p)) = p
Related(p, q) == IsPrefix(p, q) \/ IsPrefix(q, p)
ArgvOf(l) == l.options.argv.a
ArgvKey(path) == s_config_setting \o Dotted(path)
\* a later entry of argv addresses the path, a prefix or an extension of it
OverwrittenLater(argv, j, path) ==
    \E k \in DOMAIN argv, q \in OverridePaths :
        k > j /\ argv[k][1] = ArgvKey(q) /\ Related(path, q)

\* C4 as stated: for every path P and value V, argv's config-setting-P = V
\* makes the result hold V at P.
C4_Original ==
    \A i \in DOMAIN lc : \A p \in OverridePaths :
        (lc[i].pc = "done" /\ ArgvKey(p) \in OKeys(ArgvOf(lc[i])))
            => Lookup(lc[i].result.m, p) = OGet(ArgvOf(lc[i]), ArgvKey(p))

\* C4 amended: for every path P whose first segment is not 'environments'
\* and every string V, argv's config-setting-P = V makes the result hold V at
\* P, whatever the files, their environments blocks and the environment-
\* variable overrides give at P, above it or below it, unless a later
\* config-setting key of argv addresses P, a prefix or an extension of P.
C4_CliOverrideWins ==
    \A i \in DOMAIN lc : \A p \in OverridePaths :
        lc[i].pc = "done" =>
            \A j \in DOMAIN ArgvOf(lc[i]) :
                (/\ ArgvOf(lc[i])[j][1] = ArgvKey(p)
                 /\ ArgvOf(lc[i])[j][2].t = "s"
                 /\ p[1] # s_environments
                 /\ ~OverwrittenLater(ArgvOf(lc[i]), j, p))
                    => Lookup(lc[i].result.m, p) = ArgvOf(lc[i])[j][2]

\* a finished run where argv sets db.host, an environment variable sets db
\* or db.host, a file gives db.host, and argv's value is the result's
C4_Witness ==
    \E i \in DOMAIN lc :
        /\ lc[i].pc = "done"
        /\ OGet(ArgvOf(lc[i]), ArgvKey(<<s_db, s_host>>)) = Str(<<"5">>)
        /\ \E n \in DOMAIN env : StartsWith(env[n][1], s_MYAPP \o s_CONFIG_ \o s_db)
        /\ Lookup(files[MainPathMyapp].m, <<s_db, s_host>>).t = "s"
        /\ Lookup(lc[i].result.m, <<s_db, s_host>>) = Str(<<"5">>)

EnvHolds(name, value) == \E n \in DOMAIN env : env[n] = <<name, value>>

\* C5 as stated: MYAPP_CONFIG_DB_HOST=foo makes the result hold db.host = foo.
C5_Original ==
    \A i \in DOMAIN lc :
        (lc[i].pc = "done" /\ EnvHolds(s_MYAPP \o s_CONFIG_ \o s_DB_HOST, Str(s_foo)))
            => Lookup(lc[i].result.m, <<s_db, s_host>>) = Str(s_foo)

\* C5 amended: with project name 'myapp', MYAPP_CONFIG_DB_HOST=foo makes the
\* result hold "foo" under the one top-level key DB_HOST (the text after the
\* prefix is the dotted path as it stands: not lower-cased, not split at '_'),
\* overriding any DB_HOST of the defaults or main file, unless argv holds
\* config-setting-DB_HOST; db.host holds "foo" only if another source put it
\* there. It is MYAPP_CONFIG_db.host=foo that sets db.host.
C5_EnvOverrideVerbatim ==
    \A i \in DOMAIN lc :
        (/\ lc[i].pc = "done"
         /\ EnvHolds(s_MYAPP \o s_CONFIG_ \o s_DB_HOST, Str(s_foo))
         /\ ArgvKey(<<s_DB_HOST>>) \notin OKeys(ArgvOf(lc[i])))
            => /\ Lookup(lc[i].result.m, <<s_DB_HOST>>) = Str(s_foo)
               /\ Lookup(lc[i].result.m, <<s_db, s_host>>) # Str(s_foo)

\* a finished run with MYAPP_CONFIG_DB_HOST=foo in the environment, a file
\* giving DB_HOST, and foo under DB_HOST in the result
C5_Witness ==
    \E i \in DOMAIN lc :
        /\ lc[i].pc = "done"
        /\ EnvHolds(s_MYAPP \o s_CONFIG_ \o s_DB_HOST, Str(s_foo))
        /\ Lookup(files[MainPathMyapp].m, <<s_DB_HOST>>).t = "s"
        /\ Lookup(lc[i].result.m, <<s_DB_HOST>>) = Str(s_foo)
        /\ Lookup(lc[i].result.m, <<s_db, s_host>>) # Str(s_foo)

\* -------------------------------------------------- claims: the environment

\* a mechanism supplies a value when it gives a non-empty string
Supplies(x) == x.t = "s" /\ Len(x.v) > 0
\* the first of the mechanisms that supplies a value, else the fallback
RECURSIVE FirstSupplied(_, _)
FirstSupplied(mechanisms, fallback) ==
    IF mechanisms = <<>> THEN fallback
    ELSE IF Supplies(Head(mechanisms)) THEN Head(mechanisms)
    ELSE FirstSupplied(Tail(mechanisms), fallback)
ValueIn(om, k) ==
    IF \E n \in DOMAIN om : om[n][1] = k
    THEN (CHOOSE pair \in Range(om) : pair[1] = k)[2] ELSE Undefined

\* the five mechanisms of a loader, read off its options and process.env
EnvMechanisms(o) ==
    <<o.environmentOverride,
      IF o.argv.t = "argv"
      THEN ValueIn(o.argv.a, IF Supplies(o.cliArgumentEnvironment)
                             THEN o.cliArgumentEnvironment.v ELSE s_config_env)
      ELSE Undefined,
      ValueIn(env, IF Supplies(o.envVariableEnvironment)
                   THEN o.envVariableEnvironment.v
                   ELSE ConventionPrefix(o.projectName) \o s_ENV),
      ValueIn(env, s_NODE_ENV)>>
EnvFallback(o) ==
    IF Supplies(o.defaultEnvironment) THEN o.defaultEnvironment ELSE Str(s_local)

\* C2: on a fresh loader getConfigEnvironment returns the value of the first
\* mechanism that supplies one, in the order: environmentOverride, the CLI
\* argument, the project's environment variable, NODE_ENV, and else
\* defaultEnvironment or 'local'.
C2_EnvPrecedence ==
    \A i \in DOMAIN lc :
        lc[i].seenEnv # {} =>
            /\ lc[i].seenEnv = {lc[i].environment}
            /\ lc[i].environment =
                  FirstSupplied(EnvMechanisms(lc[i].options), EnvFallback(lc[i].options))

\* the call has returned the project variable's value although NODE_ENV and
\* defaultEnvironment are set, no override and no CLI argument being given
C2_Witness ==
    \E i \in DOMAIN lc :
        /\ lc[i].seenEnv # {}
        /\ ~Supplies(EnvMechanisms(lc[i].options)[1])
        /\ ~Supplies(EnvMechanisms(lc[i].options)[2])
        /\ Supplies(EnvMechanisms(lc[i].options)[3])
        /\ Supplies(EnvMechanisms(lc[i].options)[4])
        /\ Supplies(lc[i].options.defaultEnvironment)
        /\ lc[i].options.envVariableEnvironment = Undefined
        /\ lc[i].environment = EnvMechanisms(lc[i].options)[3]

\* ------------------------------------------------ claims: the main file name

\* the four mechanisms that may name the main file, of the project my
FileMechanisms(o) ==
    <<o.filenameOverride,
      IF o.argv.t = "argv"
      THEN ValueIn(o.argv.a, IF Supplies(o.cliArgumentFile)
                             THEN o.cliArgumentFile.v ELSE s_c)
      ELSE Undefined,
      ValueIn(env, IF Supplies(o.envVariableFile)
                   THEN o.envVariableFile.v ELSE s_MY \o s_CONFIG),
      o.filename>>
\* the names the mechanisms leave to look for
ChosenNames(o) ==
    LET g == FirstSupplied(FileMechanisms(o), Undefined)
    IN IF g = Undefined THEN DefaultNames ELSE <<g.v>>
\* the file names found in a directory, in candidate order
InDir(d, names) ==
    SelectSeq([n \in DOMAIN names |->
                  IF names[n][1] = "/" THEN names[n] ELSE d \o <<"/">> \o names[n]],
              LAMBDA p : p \in DOMAIN files)
\* what the main file contributes: the content of the first existing
\* candidate, the project root before /etc, and else nothing
MainContribution(o) ==
    LET found == InDir(dirP, ChosenNames(o)) \o InDir(s_etc, ChosenNames(o))
    IN IF found = <<>> THEN <<>> ELSE files[found[1]].m

\* C8: the main file name comes from the first mechanism that supplies one
\* (filenameOverride, the CLI argument, the environment variable, filename,
\* the default candidates); no lower mechanism is consulted once one has; and
\* when the chosen name resolves to no existing file, loadConfig does not
\* fail and the main file contributes an empty mapping.
C8_MainFileChoice ==
    \A i \in DOMAIN lc :
        /\ lc[i].pc # "failed"
        /\ lc[i].pc = "done" => lc[i].result.m = MainContribution(lc[i].options)

\* a finished run where the CLI names a file that exists nowhere while the
\* default my.conf exists in the project root: the result is empty
C8_Witness ==
    \E i \in DOMAIN lc :
        /\ lc[i].pc = "done"
        /\ ~Supplies(lc[i].options.filenameOverride)
        /\ ChosenNames(lc[i].options) = <<n_cli>>
        /\ Resolve(dirP, n_cli) \notin DOMAIN files
        /\ Resolve(s_etc, n_cli) \notin DOMAIN files
        /\ Resolve(dirP, DefaultNames[1]) \in DOMAIN files
        /\ lc[i].result = EmptyObj

\* ------------------------------------------------ claims: the order of steps

StepOrder ==
    <<"NameResolved", "RootResolved", "EnvResolved", "DefaultsLoaded",
      "MainLoaded", "OverridesCollected", "Merged">>
Happened(tr, s) == \E n \in DOMAIN tr : tr[n] = s
Pos(tr, s) == CHOOSE n \in DOMAIN tr : tr[n] = s
\* b has happened only after a has
Needs(tr, b, a) == Happened(tr, b) => Happened(tr, a) /\ Pos(tr, a) < Pos(tr, b)
\* a config file the run may load fails to parse
SomeMalformed == \E p \in DOMAIN files : files[p] = Malformed

ContentAt(path) == IF path \in DOMAIN files THEN files[path] ELSE EmptyObj
\* the instance field, once set, is kept by the step
Kept(before, after) == Truthy(before) => after = before

\* C7: on one instance, once getProjectName, getProjectRootDir or
\* getConfigEnvironment has returned a value, every later call of it, made
\* directly or by a later loadConfig, returns that value whatever has changed
\* in process.env, the working directory or the manifest; and a later
\* loadConfig reads the defaults and main files again, as they are then.
C7_CachedIdentity ==
    [][\A i \in DOMAIN lc :
          /\ Kept(lc[i].projectName, lc'[i].projectName)
          /\ Kept(lc[i].rootDir, lc'[i].rootDir)
          /\ Kept(lc[i].environment, lc'[i].environment)
          /\ lc'[i].seenName \subseteq {lc'[i].projectName}
          /\ lc'[i].seenRoot \subseteq {lc'[i].rootDir}
          /\ lc'[i].seenEnv \subseteq {lc'[i].environment}
          /\ lc'[i].runs > lc[i].runs =>
                lc'[i].defaultsConfig =
                    ContentAt(Resolve(lc'[i].rootDir.v,
                                      lc'[i].projectName.v \o s_defaults_conf))
          /\ lc[i].pc = "defaults" /\ lc'[i].pc # "defaults" =>
                lc'[i].mainConfig =
                    ContentAt(Resolve(lc'[i].rootDir.v,
                                      lc'[i].projectName.v \o s_conf))
      ]_vars

\* a second loadConfig has finished on an instance that resolved my, /p and
\* local at first, after the working directory, NODE_ENV, the manifest and
\* the main file have all changed: it still holds my, /p and local, and its
\* result has the main file's new content
C7_Witness ==
    \E i \in DOMAIN lc :
        /\ lc[i].runs = 2 /\ lc[i].pc = "done"
        /\ lc[i].projectName = Str(sMy) /\ files[ManifestP] = Map(s_name :> Str(sOt))
        /\ lc[i].rootDir = Str(dirP) /\ cwd = dirQ
        /\ lc[i].environment = Str(s_local) /\ processEnv(s_NODE_ENV) = Str(sDev)
        /\ Prop(lc[i].result, kA) = Str(<<"2">>)

\* ------------------------------------------------------- claims: getConfig

\* the same keys with the same values, in whatever order
DeepEqual(o1, o2) == Range(OrEmpty(o1)) = Range(OrEmpty(o2))
\* call j was made after call i had returned its result
MadeAfter(j, i) == calls[i].pc = "returned" /\ calls[j].began > calls[i].ended
\* a call that loaded stored its result between the end of i and the start of j
StoredBetween(i, j) ==
    \E k \in DOMAIN calls :
        /\ calls[k].hash = calls[i].hash
        /\ calls[k].pc = "returned" /\ ~calls[k].hit
        /\ calls[k].ended > calls[i].ended /\ calls[k].ended < calls[j].began

\* C6 as stated: for deep-equal option values, in whatever order the keys
\* were written, a getConfig call made after an earlier one has completed
\* returns the very object the earlier call returned and reads no file.
C6_Original ==
    \A i, j \in DOMAIN calls :
        DeepEqual(calls[i].options, calls[j].options) /\ MadeAfter(j, i)
        => /\ calls[j].hit
           /\ calls[j].ret = calls[i].ret
           /\ j \notin DOMAIN lc

\* C6 amended: for option values with the same JSON text (the same keys and
\* values written in the same order), a getConfig call made after an earlier
\* one has returned its result returns the very object the earlier call
\* returned, without creating a loader and so without reading a file,
\* provided no other call of that text stored its result in between.
C6_SameSerialization ==
    \A i, j \in DOMAIN calls :
        /\ JSONstringify(OrEmpty(calls[i].options))
               = JSONstringify(OrEmpty(calls[j].options))
        /\ MadeAfter(j, i)
        /\ ~StoredBetween(i, j)
        => /\ calls[j].hit
           /\ calls[j].ret = calls[i].ret
           /\ j \notin DOMAIN lc

\* the first call loaded both files; the second, with the same options in
\* the same order, was made after it returned and got the same object
C6_Witness ==
    \E i, j \in DOMAIN calls :
        /\ calls[i].options = OptionsRootName /\ calls[j].options = OptionsRootName
        /\ MadeAfter(j, i)
        /\ ~calls[i].hit /\ lc[i].reads = 2
        /\ calls[j].hit /\ calls[j].ret = calls[i].ret /\ j \notin DOMAIN lc

\* the calls of one options hash that found the slot empty
Loaders(h) == {i \in DOMAIN calls : calls[i].hash = h /\ ~calls[i].hit}
\* every call of the set started before any of them had completed
StartedTogether(S) == \A a, b \in S : calls[a].began < calls[b].ended
\* the call of the set that finished last
LastOf(S) == CHOOSE a \in S : \A b \in S : calls[b].ended <= calls[a].ended

\* C10: when two or more getConfig calls with identical options start before
\* any of them has completed, each performs its own full load; once all have
\* completed the slot of those options holds the object of the call that
\* finished last; and every call with those options started afterwards
\* returns that object without loading.
C10_LastFinisherWins ==
    \A h \in {calls[i].hash : i \in DOMAIN calls} :
        LET S == Loaders(h)
        IN /\ Cardinality(S) >= 2
           /\ \A a \in S : calls[a].pc = "returned"
           /\ StartedTogether(S)
           => /\ \A a \in S : /\ a \in DOMAIN lc
                              /\ lc[a].pc = "done"
                              /\ lc[a].trace[Len(lc[a].trace)] = "Merged"
                              /\ lc[a].reads = 2
                              /\ calls[a].ret.id = a
              /\ configCache[h] = ResultObject(LastOf(S))
              /\ \A j \in DOMAIN calls :
                    /\ calls[j].hash = h
                    /\ calls[j].began > calls[LastOf(S)].ended
                    => /\ calls[j].hit
                       /\ calls[j].ret = ResultObject(LastOf(S))
                       /\ j \notin DOMAIN lc

\* calls 1 and 2 with the same options both loaded, call 2 finishing first;
\* call 3, made after both, got call 1's object without loading
C10_Witness ==
    /\ Len(calls) = 3
    /\ calls[1].hash = calls[2].hash /\ calls[2].hash = calls[3].hash
    /\ ~calls[1].hit /\ ~calls[2].hit
    /\ calls[2].began < calls[2].ended /\ calls[2].ended < calls[1].ended
    /\ calls[1].pc = "returned"
    /\ calls[3].began > calls[1].ended
    /\ calls[3].hit /\ calls[3].ret.id = 1 /\ 3 \notin DOMAIN lc

====
